---- MODULE Spec2Model ----
(***************************************************************************)
(* MCP connection registry (MCPClientManager), the HTTP routes that drive  *)
(* it (connect, disconnect) and the chat route's function-calling loop.    *)
(*                                                                         *)
(* Every route handler is an async function: it runs without interruption  *)
(* up to its next await, and other requests run while it is suspended.     *)
(* One action of the model is one such uninterrupted stretch of a handler. *)
(***************************************************************************)
EXTENDS Integers, Sequences, FiniteSets, TLC

\* ------------------------------------------------------------------ bounds
\* protocol clients (new Client(...)) constructed during one behaviour
MaxClients == 2
\* enabled selections in one chat request
MaxEnabled == 2
\* function calls the model proposes in one response
MaxCalls == 2
\* ToolCall records of one run: the model stops proposing names that
\* resolve once this many records exist
MaxRecords == 2

\* --------------------------------------------------------------- constants
ServerIds == {"a", "a__b"}
\* the request slots of the registry routes: two requests may overlap, and a
\* slot takes a new request once its response is delivered
Procs == {1, 2}
ClientIds == 1..MaxClients
NoClient == 0

\* The configurations a caller may post.  transport "none" stands for a body
\* with a missing id, name or transport; url is absent, not parseable by
\* new URL(...), or parseable.  No id or name mentions "brave", so the
\* BRAVE_API_KEY check of the connect route never applies.
Configs ==
  { [transport |-> "none",  command |-> FALSE, url |-> "none"],
    [transport |-> "stdio", command |-> TRUE,  url |-> "none"],
    [transport |-> "stdio", command |-> FALSE, url |-> "none"],
    [transport |-> "sse",   command |-> FALSE, url |-> "ok"],
    [transport |-> "sse",   command |-> FALSE, url |-> "bad"],
    [transport |-> "sse",   command |-> FALSE, url |-> "none"] }

NoConfig == [transport |-> "none", command |-> FALSE, url |-> "none"]

VARIABLES
  clients,      \* MCPClientManager.clients: server id -> client of the handle
  clientState,  \* per client object: "unused", "new", "open", "closed"
  clientServer, \* per client object: the server id it was constructed for
  nextClient,   \* the next client object to construct
  req,          \* per request: operation, arguments, position, locals
  resp          \* per request: the HTTP response, once sent

regVars == <<clients, clientState, clientServer, nextClient, req, resp>>

VARIABLES
  chatPc,               \* position of the chat request's handler
  enabledTools,         \* the request's enabled selections, in order
  mcpEnabled,           \* the request's enable flag
  functionDeclarations, \* names of the declarations given to the model
  toolMap,              \* function name -> selection it resolves to
  registered,           \* history: selections for which toolMap.set ran
  modelCalls,           \* history: chat.sendMessage calls made so far
  iterationCount,       \* the loop counter of the function-calling loop
  response,             \* the model's latest response
  setupIdx,             \* index of the selection being set up
  callIdx,              \* index of the function call being executed
  callClient,           \* the client the call in progress was sent on
  functionResponses,    \* the batch for the model, built during a round
  toolCalls,            \* the ToolCall records of the run
  called,               \* history: selections callTool was invoked for
  finalResponse,        \* the text to return
  answerText,           \* history: what the last response.text() returned
  chatResp              \* the chat request's HTTP response, once sent

chatVars == <<chatPc, enabledTools, mcpEnabled, functionDeclarations, toolMap,
              registered, modelCalls, iterationCount, response, setupIdx, callIdx, callClient,
                
              functionResponses, toolCalls, called, finalResponse, answerText,
              chatResp>>

VARIABLES
  servers  \* MCPProvider.servers (browser): per added server id its state

uiVars == <<servers>>

VARIABLES
  now,     \* the clock Date.now() reads, in ticks
  spawned  \* the environments of the latest stdio transport built

hostVars == <<now, spawned>>

vars == <<regVars, chatVars, uiVars, hostVars>>

\* ---------------------------------------------------------------- helpers
Capabilities == {"tools", "prompts", "resources"}
IdleReq == [op |-> "idle", id |-> "a", cfg |-> NoConfig, pc |-> "idle",
            client |-> NoClient, inst |-> NoClient, sent |-> FALSE,
            silent |-> {}, closing |-> [id \in {} |-> NoClient],
            pending |-> {}, found |-> NoClient]
NoResp == [status |-> 0, error |-> "", tools |-> "none", prompts |-> "none",
           resources |-> "none"]
\* a variant of ErrorResp: the message is dropped
ErrorWithoutMessage(code, msg) ==
  [status |-> code, error |-> "", tools |-> "none", prompts |-> "none",
   resources |-> "none"]

ErrorResp(code, msg) == [status |-> code, error |-> msg, tools |-> "none",
                         prompts |-> "none", resources |-> "none"]

isConnected(serverId) == clients[serverId] # NoClient

getConnectedServerIds == {id \in ServerIds : clients[id] # NoClient}

\* ------------------------------------------- stdio child environment
\* the keys of an environment, and what a key can hold: in process.env a
\* string or nothing, in config.env also undefined
EnvKeys == {"K", "L"}
Absent == "<absent>"
Undefined == "<undefined>"
AmbientValues == {Absent, "", "ambient"}
ConfigValues == {Absent, Undefined, "", "configured"}

\* {...process.env, ...(config.env || {})}: an own key of config.env wins,
\* whatever its value
Spread(ambient, config) ==
  [k \in EnvKeys |-> IF config[k] # Absent THEN config[k] ELSE ambient[k]]

\* the forEach over the keys of envRaw: a key is copied unless its value is
\* undefined or ""
Strip(raw) ==
  [k \in EnvKeys |-> IF raw[k] \in {Absent, Undefined, ""} THEN Absent
                     ELSE raw[k]]

\* the env handed to StdioClientTransport
ChildEnv(ambient, config) == Strip(Spread(ambient, config))

NoSpawn == [ambient |-> <<>>, config |-> <<>>, env |-> <<>>]

\* createTransport: the error it throws, or "ok" when a transport is built
createTransport(cfg) ==
  CASE cfg.transport = "stdio" ->
         IF ~cfg.command THEN "STDIO transport requires a command" ELSE "ok"
    [] cfg.transport = "sse" ->
         IF cfg.url = "none" THEN "SSE transport requires a URL"
         ELSE IF cfg.url = "bad" THEN "Invalid URL" ELSE "ok"
    [] OTHER -> "Unsupported transport type"

\* the connect route's validation of the posted body, before the registry is
\* touched: the error of the 400 response, or "ok"
RouteValidate(cfg) ==
  IF cfg.transport = "none" THEN "Missing required fields: id, name, transport"
  ELSE IF cfg.transport = "stdio" /\ ~cfg.command
       THEN "STDIO transport requires a command"
  ELSE IF cfg.transport = "sse" /\ cfg.url = "none"
       THEN "SSE transport requires a URL"
  ELSE "ok"

\* ------------------------------------------------- registry: disconnect
\* instance.client.close() has settled: the client object afterwards
AfterClose(inst, ok) ==
  IF ok THEN [clientState EXCEPT ![inst] = "closed"] ELSE clientState

\* this.clients.delete(serverId)
DeleteHandle(serverId) == [clients EXCEPT ![serverId] = NoClient]

\* this.clients.set(config.id, {client, transport, config})
SetHandle(serverId, c) == [clients EXCEPT ![serverId] = c]

\* ---------------------------------------------------- registry: connect
HandshakeError == "handshake failed"
CloseError == "close failed"

\* connect's catch block: close is tried, its error dropped, and the error
\* of the handshake is thrown again
CleanupError(closeOk) == HandshakeError

\* a variant of TableAtHandshake: the handle is set before the handshake
TableSetBeforeHandshake(table, serverId, c) == [table EXCEPT ![serverId] = c]

\* the handle table when client.connect(transport) is awaited: as it was,
\* this.clients.set runs only after the handshake and the settle wait
TableAtHandshake(table, serverId, c) == table

\* the registry's operations on a connected server
Operations ==
  {"listTools", "listPrompts", "listResources", "callTool", "getPrompt",
   "readResource"}

\* the name of a request slot's operation when a registry method is called
\* by server code directly instead of through its route
Direct(kind) == "call:" \o kind
DirectOps == {"call"} \cup {Direct(kind) : kind \in Operations}

\* what the caller of connect gets when connect throws: the routes' catch
\* blocks answer 500 with the message, a direct caller gets the error itself
Raised(op, msg) == ErrorResp(IF op \in DirectOps THEN 0 ELSE 500, msg)

\* connects that have passed validation and still have to construct a client
PendingBuilds ==
  Cardinality({q \in Procs : req[q].pc \in {"c_teardown", "t_teardown"}})

\* connect from createTransport up to the await of client.connect(transport),
\* with `table` and `states` the registry as the preceding teardown leaves it
BuildAndHandshake(p, op, id, cfg, table, states) ==
  IF createTransport(cfg) # "ok"
    THEN /\ req' = [req EXCEPT ![p] = [IdleReq EXCEPT !.op = op,
                       !.id = id, !.cfg = cfg, !.pc = "done",
                       !.found = req[p].found]]
         /\ resp' = [resp EXCEPT ![p] = Raised(op, createTransport(cfg))]
         /\ clients' = table
         /\ clientState' = states
         /\ UNCHANGED <<clientServer, nextClient>>
    ELSE LET c == nextClient IN
         /\ c <= MaxClients
         /\ nextClient' = c + 1
         /\ clientState' = [states EXCEPT ![c] = "new"]
         /\ clientServer' = [clientServer EXCEPT ![c] = id]
         /\ clients' = TableAtHandshake(table, id, c)
         /\ req' = [req EXCEPT ![p] = [IdleReq EXCEPT !.op = op,
                       !.id = id, !.pc = "c_handshake", !.client = c,
                       !.found = req[p].found]]
         /\ UNCHANGED resp

\* POST /api/mcp/connect up to its first await: validation, then
\* mcpClientManager.connect, which tears an existing handle down first
ConnectRequest(p, id, cfg) ==
  /\ req[p].op = "idle"
  /\ IF RouteValidate(cfg) # "ok"
         THEN /\ req' = [req EXCEPT ![p] = [IdleReq EXCEPT !.op = "connect",
                            !.id = id, !.cfg = cfg, !.pc = "done"]]
              /\ resp' = [resp EXCEPT ![p] = ErrorResp(400, RouteValidate(cfg))]
              /\ UNCHANGED <<clients, clientState, clientServer, nextClient>>
         ELSE /\ nextClient + PendingBuilds <= MaxClients
              /\ IF isConnected(id)
                   THEN \* await this.disconnect(config.id)
                        /\ req' = [req EXCEPT ![p] = [IdleReq EXCEPT
                                     !.op = "connect", !.id = id, !.cfg = cfg,
                                     !.pc = "c_teardown", !.inst = clients[id]]]
                        /\ UNCHANGED <<clients, clientState, clientServer,
                                       nextClient, resp>>
                   ELSE BuildAndHandshake(p, "connect", id, cfg, clients,
                                          clientState)
  /\ UNCHANGED chatVars

\* a connect request posted by any client of the API
ConnectStart(p) ==
  /\ \E id \in ServerIds, cfg \in Configs : ConnectRequest(p, id, cfg)
  /\ UNCHANGED <<uiVars, hostVars>>

\* mcpClientManager.connect(config) called by server code directly, up to its
\* first await: the teardown of an existing handle comes before
\* createTransport
RegistryConnect(p) ==
  /\ req[p].op = "idle"
  /\ nextClient + PendingBuilds <= MaxClients
  /\ \E id \in ServerIds, cfg \in Configs :
       IF isConnected(id)
         THEN \* await this.disconnect(config.id)
              /\ req' = [req EXCEPT ![p] = [IdleReq EXCEPT
                           !.op = "call", !.id = id, !.cfg = cfg,
                           !.pc = "c_teardown", !.inst = clients[id]]]
              /\ UNCHANGED <<clients, clientState, clientServer,
                             nextClient, resp>>
         ELSE BuildAndHandshake(p, "call", id, cfg, clients, clientState)
  /\ UNCHANGED <<chatVars, uiVars, hostVars>>

\* connect resumes after the close of the old client: disconnect deletes the
\* handle and connect goes on; a failing close makes connect throw (the call
\* of disconnect is outside connect's try block)
ConnectTeardownDone(p) ==
  /\ req[p].pc = "c_teardown"
  /\ \E ok \in BOOLEAN :
       IF ok
         THEN BuildAndHandshake(p, req[p].op, req[p].id, req[p].cfg,
                                DeleteHandle(req[p].id),
                                AfterClose(req[p].inst, TRUE))
         ELSE /\ req' = [req EXCEPT ![p] = [IdleReq EXCEPT !.op = req[p].op,
                            !.id = req[p].id, !.pc = "done",
                            !.found = req[p].found]]
              /\ resp' = [resp EXCEPT ![p] = Raised(req[p].op, CloseError)]
              /\ UNCHANGED <<clients, clientState, clientServer, nextClient>>
  /\ UNCHANGED <<chatVars, uiVars, hostVars>>

\* client.connect(transport) settles: on success the settle wait starts, on
\* failure the catch block calls client.close()
ConnectHandshake(p) ==
  /\ req[p].pc = "c_handshake"
  /\ \E ok \in BOOLEAN :
       IF ok
         THEN /\ clientState' = [clientState EXCEPT ![req[p].client] = "open"]
              /\ req' = [req EXCEPT ![p].pc = "c_settle"]
         ELSE \* catch: await client.close()
              /\ req' = [req EXCEPT ![p].pc = "c_cleanup"]
              /\ UNCHANGED clientState
  /\ UNCHANGED <<clients, clientServer, nextClient, resp, chatVars, uiVars, hostVars>>

\* the close of the catch block settles; connect throws and the route's catch
\* answers 500
ConnectCleanupDone(p) ==
  /\ req[p].pc = "c_cleanup"
  /\ \E ok \in BOOLEAN :
       /\ clientState' = AfterClose(req[p].client, ok)
       /\ resp' = [resp EXCEPT ![p] = Raised(req[p].op, CleanupError(ok))]
  /\ req' = [req EXCEPT ![p].pc = "done"]
  /\ UNCHANGED <<clients, clientServer, nextClient, chatVars, uiVars, hostVars>>

\* the settle wait of connect ends: the handle is set, connect returns and
\* the route starts its own wait
ConnectInstall(p) ==
  /\ req[p].pc = "c_settle"
  /\ clients' = SetHandle(req[p].id, req[p].client)
  /\ req' = [req EXCEPT ![p].pc = IF req[p].op = "connect" THEN "r_settle"
                                  ELSE IF req[p].op = "test" THEN "t_discover"
                                  ELSE "done"]
  /\ UNCHANGED <<clientState, clientServer, nextClient, resp,
                 chatVars, uiVars, hostVars>>

\* ------------------------------------- connect route: capability discovery
TimeoutError == "Request timeout"
ConnectionLostError == "server connection lost"

\* what a server does with one list request: it answers, the request fails,
\* the request fails with "Connection closed", or no answer comes
ListOutcomes == {"answer", "throw", "closed", "silent"}

Resolved(v) == [state |-> "resolved", value |-> v, error |-> ""]
Rejected(e) == [state |-> "rejected", value |-> "none", error |-> e]
Pending == [state |-> "pending", value |-> "none", error |-> ""]

\* mcpClientManager.listX(config.id).catch(...): the promise handed to
\* fetchWithTimeout.  Only the catch of listTools throws again, and only on
\* "Connection closed".
ListPromise(kind, outcome) ==
  CASE outcome = "answer" -> Resolved("list")
    [] outcome = "silent" -> Pending
    [] outcome = "closed" /\ kind = "tools" -> Rejected(ConnectionLostError)
    [] OTHER -> Resolved("empty")

\* Promise.race of the promise and a timer that rejects
fetchWithTimeout(promise) ==
  IF promise.state = "pending" THEN Rejected(TimeoutError) ELSE promise

\* the route's wait ends and the three list calls are made; each starts with
\* getClient(config.id), which throws when the handle is gone
ConnectDiscoverStart(p) ==
  /\ req[p].pc = "r_settle"
  /\ req' = [req EXCEPT ![p].pc = "r_discover",
                        ![p].sent = isConnected(req[p].id)]
  /\ UNCHANGED <<clients, clientState, clientServer, nextClient, resp,
                 chatVars, uiVars, hostVars>>

\* Promise.all over the three wrapped calls settles and the route answers
ConnectDiscoverDone(p) ==
  /\ req[p].pc = "r_discover"
  /\ \E out \in [Capabilities -> ListOutcomes] :
       LET got == [k \in Capabilities |->
                     fetchWithTimeout(ListPromise(k, out[k]))]
           errors == {got[k].error : k \in {x \in Capabilities :
                                              got[x].state = "rejected"}}
       IN /\ ~req[p].sent => \A k \in Capabilities : out[k] = "throw"
          /\ req' = [req EXCEPT ![p].pc = "done",
                       ![p].silent = {k \in Capabilities : out[k] = "silent"}]
          /\ IF errors = {}
               THEN resp' = [resp EXCEPT ![p] =
                       [status |-> 200, error |-> "",
                        tools |-> got["tools"].value,
                        prompts |-> got["prompts"].value,
                        resources |-> got["resources"].value]]
               ELSE \E e \in errors :
                      resp' = [resp EXCEPT ![p] = ErrorResp(500, e)]
  /\ UNCHANGED <<clients, clientState, clientServer, nextClient, chatVars, uiVars, hostVars>>

\* ------------------------------------------------------ disconnect route
NotConnectedError == "Server is not connected"

\* POST /api/mcp/disconnect up to its first await: the isConnected check,
\* then mcpClientManager.disconnect reads the handle and calls close
DisconnectRequest(p, id) ==
  /\ req[p].op = "idle"
  /\ IF ~isConnected(id)
         THEN /\ req' = [req EXCEPT ![p] = [IdleReq EXCEPT !.op = "disconnect",
                            !.id = id, !.pc = "done"]]
              /\ resp' = [resp EXCEPT ![p] = ErrorResp(400, NotConnectedError)]
         ELSE \* await instance.client.close()
              /\ req' = [req EXCEPT ![p] = [IdleReq EXCEPT !.op = "disconnect",
                            !.id = id, !.pc = "d_close", !.inst = clients[id]]]
              /\ UNCHANGED resp
  /\ UNCHANGED <<clients, clientState, clientServer, nextClient, chatVars>>

\* a disconnect request posted by any client of the API
DisconnectStart(p) ==
  /\ \E id \in ServerIds : DisconnectRequest(p, id)
  /\ UNCHANGED <<uiVars, hostVars>>

\* the close settles: disconnect deletes the handle of the id and the route
\* answers; a failing close skips the delete and the route answers 500
DisconnectCloseDone(p) ==
  /\ req[p].pc = "d_close"
  /\ \E ok \in BOOLEAN :
       /\ clientState' = AfterClose(req[p].inst, ok)
       /\ IF ok
            THEN /\ clients' = DeleteHandle(req[p].id)
                 /\ resp' = [resp EXCEPT ![p] = [NoResp EXCEPT !.status = 200]]
            ELSE /\ UNCHANGED clients
                 /\ resp' = [resp EXCEPT ![p] = ErrorResp(500, CloseError)]
  /\ req' = [req EXCEPT ![p].pc = "done", ![p].inst = NoClient]
  /\ UNCHANGED <<clientServer, nextClient, chatVars, uiVars, hostVars>>

\* ------------------------------------------------- test-connection route
\* the request record of a test: `found` keeps the handle the id had when
\* the request arrived
TestReq(id, cfg, pc) ==
  [IdleReq EXCEPT !.op = "test", !.id = id, !.cfg = cfg, !.pc = pc,
                  !.inst = clients[id], !.found = clients[id]]

\* POST /api/mcp/test up to its first await: validation, then the disconnect
\* of an existing connection, or connect at once when there is none
TestStart(p) ==
  /\ req[p].op = "idle"
  /\ \E id \in ServerIds, cfg \in Configs :
       IF RouteValidate(cfg) # "ok"
         THEN /\ req' = [req EXCEPT ![p] = TestReq(id, cfg, "done")]
              /\ resp' = [resp EXCEPT ![p] = ErrorResp(400, RouteValidate(cfg))]
              /\ UNCHANGED <<clients, clientState, clientServer, nextClient>>
         ELSE /\ nextClient + PendingBuilds <= MaxClients
              /\ IF isConnected(id)
                   THEN /\ req' = [req EXCEPT ![p] =
                                    TestReq(id, cfg, "t_teardown")]
                        /\ UNCHANGED <<clients, clientState, clientServer,
                                       nextClient, resp>>
                   ELSE BuildAndHandshake(p, "test", id, cfg, clients,
                                          clientState)
  /\ UNCHANGED <<chatVars, uiVars, hostVars>>

\* the route's own disconnect settles.  On success the handle is deleted and
\* connect finds none; a failure is caught and logged, and connect, finding
\* the handle still there, starts its own teardown
TestTeardownDone(p) ==
  /\ req[p].pc = "t_teardown"
  /\ \E ok \in BOOLEAN :
       IF ok
         THEN BuildAndHandshake(p, "test", req[p].id, req[p].cfg,
                                DeleteHandle(req[p].id),
                                AfterClose(req[p].inst, TRUE))
         ELSE IF isConnected(req[p].id)
           THEN /\ req' = [req EXCEPT ![p].pc = "c_teardown",
                                      ![p].inst = clients[req[p].id]]
                /\ UNCHANGED <<clients, clientState, clientServer,
                               nextClient, resp>>
           ELSE BuildAndHandshake(p, "test", req[p].id, req[p].cfg, clients,
                                  clientState)
  /\ UNCHANGED <<chatVars, uiVars, hostVars>>

\* the three list calls settle, each with a list or, when it fails, with [],
\* and the route answers; the connection it made is left as it is
TestDiscoverDone(p) ==
  /\ req[p].pc = "t_discover"
  /\ \E got \in [Capabilities -> {"list", "empty"}] :
       resp' = [resp EXCEPT ![p] =
                  [status |-> 200, error |-> "", tools |-> got["tools"],
                   prompts |-> got["prompts"], resources |-> got["resources"]]]
  /\ req' = [req EXCEPT ![p].pc = "done"]
  /\ UNCHANGED <<clients, clientState, clientServer, nextClient,
                 chatVars, uiVars, hostVars>>

\* ------------------------------------------------------- disconnectAll
\* disconnectAll() up to its await: disconnect(id) is called for every key of
\* the table, and each call runs up to its own await of client.close(); with
\* no key, Promise.all([]) is fulfilled at once
DisconnectAllStart(p) ==
  /\ req[p].op = "idle"
  /\ LET ids == getConnectedServerIds
     IN req' = [req EXCEPT ![p] = [IdleReq EXCEPT !.op = "disconnectAll",
                  !.pc = IF ids = {} THEN "done" ELSE "da_wait",
                  !.closing = [id \in ids |-> clients[id]],
                  !.pending = ids]]
  /\ UNCHANGED <<clients, clientState, clientServer, nextClient, resp,
                 chatVars, uiVars, hostVars>>

\* the close of one id settles: its disconnect deletes the handle, or rejects
\* without the delete.  Promise.all is fulfilled when the last disconnect is,
\* and rejects with the first rejection: disconnectAll has then thrown
\* ("da_rest"), while the disconnects still pending run on.
DisconnectAllCloseDone(p) ==
  /\ req[p].pc \in {"da_wait", "da_rest"}
  /\ \E id \in req[p].pending, ok \in BOOLEAN :
       LET rest == req[p].pending \ {id}
           raises == req[p].pc = "da_wait" /\ ~ok
       IN /\ clientState' = AfterClose(req[p].closing[id], ok)
          /\ clients' = IF ok THEN DeleteHandle(id) ELSE clients
          /\ resp' = IF raises THEN [resp EXCEPT ![p] = ErrorResp(0, CloseError)]
                     ELSE resp
          /\ req' = [req EXCEPT ![p].pending = rest,
                       ![p].pc = IF rest = {} THEN "done"
                                 ELSE IF raises THEN "da_rest"
                                 ELSE req[p].pc]
  /\ UNCHANGED <<clientServer, nextClient, chatVars, uiVars, hostVars>>

\* ------------------------------------------- operations on a server
RequestFailed == "request failed"

\* getClient(serverId) without a handle: the message of the error it throws
getClient(serverId) == "Server " \o serverId \o " is not connected"

\* the routes of tools, prompts and resources up to their await: without a
\* handle the route answers 400 before the registry is called; otherwise the
\* registry method gets the client and sends the request
UseStart(p) ==
  /\ req[p].op = "idle"
  /\ \E id \in ServerIds, kind \in Operations :
       IF ~isConnected(id)
         THEN /\ req' = [req EXCEPT ![p] = [IdleReq EXCEPT !.op = kind,
                            !.id = id, !.pc = "done"]]
              /\ resp' = [resp EXCEPT ![p] = ErrorResp(400, NotConnectedError)]
         ELSE /\ req' = [req EXCEPT ![p] = [IdleReq EXCEPT !.op = kind,
                            !.id = id, !.pc = "u_wait", !.inst = clients[id],
                            !.sent = TRUE]]
              /\ UNCHANGED resp
  /\ UNCHANGED <<clients, clientState, clientServer, nextClient, chatVars,
                 uiVars, hostVars>>

\* a registry method called without the route's check, as the chat route and
\* the connect route do: getClient throws when the id has no handle
RegistryUse(p) ==
  /\ req[p].op = "idle"
  /\ \E id \in ServerIds, kind \in Operations :
       IF ~isConnected(id)
         THEN /\ req' = [req EXCEPT ![p] = [IdleReq EXCEPT !.op = Direct(kind),
                            !.id = id, !.pc = "done"]]
              /\ resp' = [resp EXCEPT ![p] = Raised(Direct(kind), getClient(id))]
         ELSE /\ req' = [req EXCEPT ![p] = [IdleReq EXCEPT !.op = Direct(kind),
                            !.id = id, !.pc = "u_wait", !.inst = clients[id],
                            !.sent = TRUE]]
              /\ UNCHANGED resp
  /\ UNCHANGED <<clients, clientState, clientServer, nextClient, chatVars,
                 uiVars, hostVars>>

\* the request sent to the server settles; a request pending on a client
\* that was closed is rejected
UseDone(p) ==
  /\ req[p].pc = "u_wait"
  /\ \E ok \in BOOLEAN :
       /\ ok => clientState[req[p].inst] # "closed"
       /\ resp' = [resp EXCEPT ![p] =
                     IF ok THEN [NoResp EXCEPT !.status = 200]
                     ELSE Raised(req[p].op, RequestFailed)]
  /\ req' = [req EXCEPT ![p].pc = "done", ![p].inst = NoClient]
  /\ UNCHANGED <<clients, clientState, clientServer, nextClient, chatVars,
                 uiVars, hostVars>>

\* the response has been delivered; the slot takes the next request
Delivered(p) ==
  /\ req[p].pc = "done"
  /\ req' = [req EXCEPT ![p] = IdleReq]
  /\ resp' = [resp EXCEPT ![p] = NoResp]
  /\ UNCHANGED <<clients, clientState, clientServer, nextClient,
                 chatVars>>

Finish(p) == Delivered(p) /\ UNCHANGED <<uiVars, hostVars>>

\* ------------------------------------------------------------ chat route
maxIterations == 10

\* the tools each server lists
LiveTools(serverId) == IF serverId = "a" THEN {"b__c", "c"} ELSE {"c"}

\* the selections a request may enable; the last names a tool its server
\* does not list.  A request with the enable flag off carries at most one.
Selections ==
  { [serverId |-> "a",    toolName |-> "b__c"],
    [serverId |-> "a",    toolName |-> "c"],
    [serverId |-> "a__b", toolName |-> "c"],
    [serverId |-> "a__b", toolName |-> "zz"] }

SeqsUpTo(S, n) == UNION {[1..k -> S] : k \in 0..n}

\* the function names the model may propose
ModelNames == {"a__b__c", "a__c"}
Texts == {"", "T"}

FallbackText == "too many tool calls, stopped"
ServerErrorText == "server error"
NoChatResp == [status |-> 0, content |-> "", toolCalls |-> <<>>, error |-> ""]

\* convertMCPToolToFunctionDeclaration(tool, serverId).name
FunctionName(serverId, toolName) == serverId \o "__" \o toolName

\* toolMap.get(name) finds an entry
Known(map, name) == name \in DOMAIN map

\* toolMap.set(name, info)
MapSet(map, name, info) ==
  [n \in DOMAIN map \cup {name} |-> IF n = name THEN info ELSE map[n]]

\* a variant of NextListed: no selection is skipped
NextListedNoSkip(tools, i) == i

\* the for loop over enabledTools from index i up to the next await: the
\* selections of servers that are not connected are skipped; the result is
\* the index of the first selection whose listTools call is made
RECURSIVE NextListed(_, _)
NextListed(tools, i) ==
  IF i > Len(tools) THEN i
  ELSE IF ~isConnected(tools[i].serverId) THEN NextListed(tools, i + 1)
  ELSE i

\* a variant of UnknownToolResponse: the response does not name the call
UnknownToolUnnamed(name) == [name |-> "", kind |-> "error", text |-> "Unknown tool"]

\* the entries of functionResponses

UnknownToolResponse(name) == [name |-> name, kind |-> "error", text |-> "Unknown tool"]
\* a variant of ErrorResponse: the error is handed over as a result
ErrorAsResult(name, msg) == [name |-> name, kind |-> "result", text |-> msg]

ErrorResponse(name, msg) == [name |-> name, kind |-> "error", text |-> msg]
ResultResponse(name, txt) == [name |-> name, kind |-> "result", text |-> txt]

\* endTime of a record that has none yet
NoTime == -1

\* a variant of StatusOf: every returned result counts as a success
StatusAlwaysSuccess(isError) == "success"

\* toolCall.status = mcpResult.isError ? "error" : "success"
StatusOf(isError) == IF isError THEN "error" ELSE "success"

\* the record pushed before callTool: status "running", startTime: Date.now()
RunningCall(info) ==
  [serverId |-> info.serverId, toolName |-> info.toolName,
   status |-> "running", content |-> <<>>, upload |-> "none", error |-> "",
   result |-> "none", startTime |-> now, endTime |-> NoTime]

\* a variant of Resolve: the name is split at the first separator instead
\* of being looked up
ResolveBySplit(map, name) ==
  IF name = "a__b__c" THEN [serverId |-> "a", toolName |-> "b__c"]
  ELSE IF name = "a__c" THEN [serverId |-> "a", toolName |-> "c"]
  ELSE [serverId |-> "", toolName |-> ""]

\* toolMap.get(functionCall.name): the selection, or serverId "" for none
Resolve(map, name) ==
  IF Known(map, name) THEN map[name] ELSE [serverId |-> "", toolName |-> ""]

\* the for loop over functionCalls from index i up to the next await.  An
\* unknown name gets an error response at once; callTool on a server without
\* a handle throws in getClient before any request is sent, and the catch
\* block records the error; otherwise the request goes to the server.  After
\* the last call the batch is sent to the model.
RECURSIVE RunCalls(_, _, _, _, _)
RunCalls(calls, i, fr, tc, cl) ==
  IF i > Len(calls)
    THEN [pc |-> "model", idx |-> i, fr |-> fr, tc |-> tc, called |-> cl,
          client |-> NoClient]
  ELSE LET name == calls[i]
           info == Resolve(toolMap, name)
       IN IF info.serverId = ""
            THEN RunCalls(calls, i + 1, Append(fr, UnknownToolResponse(name)),
                          tc, cl)
          ELSE IF ~isConnected(info.serverId)
            THEN RunCalls(calls, i + 1,
                          Append(fr, ErrorResponse(name,
                                                   getClient(info.serverId))),
                          Append(tc, [RunningCall(info) EXCEPT
                                        !.status = "error",
                                        !.error = getClient(info.serverId),
                                        !.endTime = now]),
                          cl \cup {info})
          ELSE [pc |-> "tool", idx |-> i, fr |-> fr,
                tc |-> Append(tc, RunningCall(info)), called |-> cl \cup {info},
                client |-> clients[info.serverId]]

\* the JSON response of a run that reached the end of the handler
OkResponse(text, tc) ==
  [status |-> 200, content |-> text, toolCalls |-> tc, error |-> ""]

\* the response of the early returns and of the handler's catch block
ChatErrorResponse(code, msg) ==
  [status |-> code, content |-> "", toolCalls |-> <<>>, error |-> msg]

\* response.text() || fallback
TextOrFallback(text) == IF text = "" THEN FallbackText ELSE text

\* the request arrives: the early returns, then the setup loop up to its
\* first listTools call, or chat.sendMessage(userMessage) when there is none
ChatStart ==
  /\ chatPc = "idle"
  /\ \E pre \in {"ok", "nokey", "nomessage"}, en \in BOOLEAN,
        tools \in SeqsUpTo(Selections, MaxEnabled) :
       /\ en \/ Len(tools) <= 1
       /\ enabledTools' = tools
       /\ mcpEnabled' = en
       /\ IF pre # "ok"
            THEN /\ chatPc' = "done"
                 /\ chatResp' = ChatErrorResponse(
                                  IF pre = "nokey" THEN 500 ELSE 400, pre)
                 /\ UNCHANGED <<setupIdx, modelCalls>>
            ELSE LET j == IF en THEN NextListed(tools, 1) ELSE Len(tools) + 1
                 IN /\ setupIdx' = j
                    /\ chatPc' = IF j > Len(tools) THEN "model" ELSE "setup"
                    /\ modelCalls' = IF j > Len(tools) THEN 1 ELSE 0
                    /\ UNCHANGED chatResp
  /\ UNCHANGED <<functionDeclarations, toolMap, registered, iterationCount,
                 response, callIdx, callClient,
                   functionResponses, toolCalls, called,
                 finalResponse, answerText>>
  /\ UNCHANGED <<regVars, uiVars, hostVars>>

\* listTools settles for the selection at setupIdx: the tool, when listed,
\* is declared and entered in toolMap; a failure is logged; the loop goes on
ChatSetupListed ==
  /\ chatPc = "setup"
  /\ \E ok \in BOOLEAN :
       LET sel == enabledTools[setupIdx]
           name == FunctionName(sel.serverId, sel.toolName)
           found == ok /\ sel.toolName \in LiveTools(sel.serverId)
           j == NextListed(enabledTools, setupIdx + 1)
       IN /\ functionDeclarations' =
               IF found THEN Append(functionDeclarations, name)
               ELSE functionDeclarations
          /\ toolMap' = IF found THEN MapSet(toolMap, name, sel) ELSE toolMap
          /\ registered' = IF found THEN registered \cup {sel} ELSE registered
          /\ setupIdx' = j
          /\ chatPc' = IF j > Len(enabledTools) THEN "model" ELSE "setup"
          /\ modelCalls' = IF j > Len(enabledTools) THEN 1 ELSE 0
  /\ UNCHANGED <<enabledTools, mcpEnabled, iterationCount, response, callIdx, callClient,
    
                 functionResponses, toolCalls, called, finalResponse,
                 answerText, chatResp>>
  /\ UNCHANGED <<regVars, uiVars, hostVars>>

\* a variant of ContinueRound: the call that settled is waited for again
StayOnCall(i, fr, tc) ==
  /\ chatPc' = "tool"
  /\ UNCHANGED <<callIdx, callClient, functionResponses, toolCalls, called,
                 modelCalls>>

\* the state after the for loop over functionCalls has run from call i
ContinueRound(i, fr, tc) ==
  LET r == RunCalls(response.calls, i, fr, tc, called)
  IN /\ chatPc' = r.pc
     /\ callIdx' = r.idx
     /\ callClient' = r.client
     /\ functionResponses' = r.fr
     /\ toolCalls' = r.tc
     /\ called' = r.called
     /\ modelCalls' = IF r.pc = "model" THEN modelCalls + 1 ELSE modelCalls

\* names of `calls` that resolve
Resolvable(calls) ==
  Cardinality({k \in 1..Len(calls) : Resolve(toolMap, calls[k]).serverId # ""})

\* chat.sendMessage throws: the handler's catch block answers
ChatModelThrows ==
  /\ chatPc = "model"
  /\ chatPc' = "done"
  /\ chatResp' = ChatErrorResponse(500, ServerErrorText)
  /\ UNCHANGED <<enabledTools, mcpEnabled, functionDeclarations, toolMap,
                 registered, modelCalls, iterationCount, response, setupIdx,
                 callIdx, callClient,
                   functionResponses, toolCalls, called, finalResponse,
                 answerText>>
  /\ UNCHANGED <<regVars, uiVars, hostVars>>

\* a variant of LoopContinues: the bound is tested with <=
LoopContinuesInclusive(count) == count <= maxIterations

\* while (iterationCount < maxIterations)
LoopContinues(count) == count < maxIterations

\* chat.sendMessage returns a response: the while loop is entered again, or
\* left when the counter has reached maxIterations
ChatModelReply(cap) ==
  /\ chatPc = "model"
  /\ \E calls \in SeqsUpTo(ModelNames, MaxCalls), text \in Texts :
       /\ Len(toolCalls) + Resolvable(calls) <= cap
       /\ response' = [calls |-> calls]
       /\ IF LoopContinues(iterationCount)
            THEN /\ iterationCount' = iterationCount + 1
                 /\ IF calls = <<>>
                      THEN \* finalResponse = response.text(); break
                           /\ finalResponse' =
                                IF iterationCount + 1 >= maxIterations
                                  THEN TextOrFallback(text) ELSE text
                           /\ answerText' = text
                           /\ chatPc' = "done"
                           /\ chatResp' = OkResponse(finalResponse', toolCalls)
                           /\ UNCHANGED <<callIdx, callClient,
                             functionResponses, toolCalls,
                                          called, modelCalls>>
                      ELSE LET r == RunCalls(calls, 1, <<>>, toolCalls, called)
                           IN /\ chatPc' = r.pc
                              /\ callIdx' = r.idx
                              /\ callClient' = r.client
                              /\ functionResponses' = r.fr
                              /\ toolCalls' = r.tc
                              /\ called' = r.called
                              /\ modelCalls' = IF r.pc = "model"
                                                 THEN modelCalls + 1
                                                 ELSE modelCalls
                              /\ UNCHANGED <<finalResponse, answerText,
                                             chatResp>>
            ELSE \* the loop condition fails: iterationCount >= maxIterations
                 /\ finalResponse' = TextOrFallback(text)
                 /\ answerText' = text
                 /\ chatPc' = "done"
                 /\ chatResp' = OkResponse(finalResponse', toolCalls)
                 /\ UNCHANGED <<iterationCount, callIdx, callClient,
                   functionResponses,
                                toolCalls, called, modelCalls>>
  /\ UNCHANGED <<enabledTools, mcpEnabled, functionDeclarations, toolMap,
                 registered, setupIdx>>
  /\ UNCHANGED <<regVars, uiVars, hostVars>>

\* the request as the model checker runs it: at most MaxRecords records
ChatModelResponds == ChatModelReply(MaxRecords)

\* content items of a tool result as callTool returns them; "" stands for a
\* field that is undefined
TextItem ==
  [type |-> "text", text |-> "t", data |-> "", mimeType |-> "", url |-> ""]
ImageItem ==
  [type |-> "image", text |-> "", data |-> "base64", mimeType |-> "image/jpeg",
   url |-> ""]
ImageNoData ==
  [type |-> "image", text |-> "", data |-> "", mimeType |-> "image/png",
   url |-> ""]

\* the content of a text result and of a result with images
TextResult == <<TextItem>>
ImageResult == <<TextItem, ImageItem, ImageNoData>>

\* the url uploadImageToStorage returns
StoredUrl == "https://storage/public/image"

\* a variant of Rehome: the url is added and the inline data stays
RehomeKeepsData(item, uploadOk) ==
  IF item.type = "image" /\ item.data # "" /\ uploadOk
    THEN [item EXCEPT !.url = StoredUrl]
    ELSE item

\* the callback mapped over mcpResult.content: an image item with data is
\* uploaded and gets the url in place of its data; when the upload throws,
\* and for every other item, the item itself is returned
Rehome(item, uploadOk) ==
  IF item.type = "image" /\ item.data # ""
    THEN IF uploadOk THEN [item EXCEPT !.data = "", !.url = StoredUrl]
         ELSE item
    ELSE item

\* what a server does with a tool call: a text result, a result with an
\* inline image, a result flagged isError, or the call throws
ToolOutcomes == {"text", "image", "isError", "throw"}
ToolThrewError == "tool call failed"

\* the record at the end of toolCalls is the one of the call in progress
SetLast(tc, rec) == [tc EXCEPT ![Len(tc)] = rec]

\* how a call sent on client c can settle: a request still pending when its
\* client is closed is rejected, so after the close the call can only throw
SettledOutcomes(c) ==
  IF clientState[c] = "closed" THEN {"throw"} ELSE ToolOutcomes

\* a variant of TableAfterCall: a server whose tool call threw loses its
\* handle
TableDropsFailedServer(table, serverId, outcome) ==
  IF outcome = "throw" THEN [table EXCEPT ![serverId] = NoClient] ELSE table

\* this.clients after callTool(serverId, ...) has settled with `outcome` and
\* the route has handled it: callTool only reads the table (getClient), and
\* neither it nor the route's catch block writes it
TableAfterCall(table, serverId, outcome) == table

\* callTool settles for the call at callIdx
ChatToolDone ==
  /\ chatPc = "tool"
  /\ \E outcome \in SettledOutcomes(callClient) :
       LET name == response.calls[callIdx]
           rec == toolCalls[Len(toolCalls)]
       IN
        /\ clients' = TableAfterCall(clients, rec.serverId, outcome)
        /\
          CASE outcome = "throw" ->
                 ContinueRound(callIdx + 1,
                   Append(functionResponses, ErrorResponse(name, ToolThrewError)),
                   SetLast(toolCalls, [rec EXCEPT !.status = "error",
                                                  !.error = ToolThrewError,
                                                  !.endTime = now]))
            [] outcome = "isError" ->
                 ContinueRound(callIdx + 1,
                   Append(functionResponses, ResultResponse(name, "Error")),
                   SetLast(toolCalls, [rec EXCEPT !.status = StatusOf(TRUE),
                                                  !.content = TextResult,
                                                  !.result = "isError",
                                                  !.endTime = now]))
            [] outcome = "text" ->
                 ContinueRound(callIdx + 1,
                   Append(functionResponses, ResultResponse(name, "text")),
                   SetLast(toolCalls, [rec EXCEPT !.status = StatusOf(FALSE),
                                                  !.content = TextResult,
                                                  !.result = "result",
                                                  !.endTime = now]))
            [] outcome = "image" ->
                 \* await Promise.all(... uploadImageToStorage ...)
                 /\ chatPc' = "upload"
                 /\ UNCHANGED <<callIdx, callClient, functionResponses,
                                toolCalls, called, modelCalls>>
  /\ UNCHANGED <<enabledTools, mcpEnabled, functionDeclarations, toolMap,
                 registered, iterationCount, response, setupIdx, finalResponse,
                 answerText, chatResp>>
  /\ UNCHANGED <<clientState, clientServer, nextClient, req, resp, uiVars, hostVars>>

\* the upload of the result's image settles: the item gets the url in place
\* of its data, or keeps its data when the upload failed
ChatUploadDone ==
  /\ chatPc = "upload"
  /\ \E ok \in BOOLEAN :
       LET name == response.calls[callIdx]
           rec == toolCalls[Len(toolCalls)]
       IN ContinueRound(callIdx + 1,
            Append(functionResponses, ResultResponse(name, "[Image data]")),
            SetLast(toolCalls, [rec EXCEPT !.status = StatusOf(FALSE),
                 !.result = "result",
                 !.upload = IF ok THEN "stored" ELSE "failed",
                 !.endTime = now,
                 !.content = [k \in 1..Len(ImageResult) |->
                                Rehome(ImageResult[k], ok)]]))
  /\ UNCHANGED <<enabledTools, mcpEnabled, functionDeclarations, toolMap,
                 registered, iterationCount, response, setupIdx, finalResponse,
                 answerText, chatResp>>
  /\ UNCHANGED <<regVars, uiVars, hostVars>>

\* ------------------------------------------------------- specification
NoModelResponse == [calls |-> <<>>]

ChatIdle ==
  /\ chatPc = "idle"
  /\ enabledTools = <<>>
  /\ mcpEnabled = FALSE
  /\ functionDeclarations = <<>>
  /\ toolMap = <<>>
  /\ registered = {}
  /\ modelCalls = 0
  /\ iterationCount = 0
  /\ response = NoModelResponse
  /\ setupIdx = 0
  /\ callIdx = 0
  /\ callClient = NoClient
  /\ functionResponses = <<>>
  /\ toolCalls = <<>>
  /\ called = {}
  /\ finalResponse = ""
  /\ answerText = ""
  /\ chatResp = NoChatResp

\* a fresh process: the registry is empty and no request is in flight
Init ==
  /\ clients = [id \in ServerIds |-> NoClient]
  /\ clientState = [c \in ClientIds |-> "unused"]
  /\ clientServer = [c \in ClientIds |-> "a"]
  /\ nextClient = 1
  /\ req = [p \in Procs |-> IdleReq]
  /\ resp = [p \in Procs |-> NoResp]
  /\ ChatIdle
  /\ servers = <<>>
  /\ now = 0
  /\ spawned = NoSpawn

Next ==
  \E p \in Procs :
    \/ ConnectStart(p)
    \/ ConnectTeardownDone(p)
    \/ ConnectHandshake(p)
    \/ ConnectCleanupDone(p)
    \/ ConnectInstall(p)
    \/ ConnectDiscoverStart(p)
    \/ ConnectDiscoverDone(p)
    \/ DisconnectStart(p)
    \/ DisconnectCloseDone(p)
    \/ Finish(p)

Spec == Init /\ [][Next]_vars

\* the operations on servers, next to connects and disconnects that change
\* the handle table meanwhile
NextOps ==
  \E p \in Procs :
    \/ RegistryConnect(p)
    \/ ConnectTeardownDone(p)
    \/ ConnectHandshake(p)
    \/ ConnectCleanupDone(p)
    \/ ConnectInstall(p)
    \/ DisconnectStart(p)
    \/ DisconnectCloseDone(p)
    \/ UseStart(p)
    \/ RegistryUse(p)
    \/ UseDone(p)
    \/ Finish(p)

SpecOps == Init /\ [][NextOps]_vars

\* the registry used as a unit: connect is called directly, without the
\* validation the routes do before they call it
NextRegistry ==
  \E p \in Procs :
    \/ RegistryConnect(p)
    \/ ConnectTeardownDone(p)
    \/ ConnectHandshake(p)
    \/ ConnectCleanupDone(p)
    \/ ConnectInstall(p)
    \/ Finish(p)

SpecRegistry == Init /\ [][NextRegistry]_vars

\* the server behind client c exits, or its transport closes, without a
\* disconnect call: connect registers no onclose or onerror callback on the
\* client or the transport, so nothing in the registry runs
ServerExit(c) ==
  /\ clientState[c] = "open"
  /\ clientState' = [clientState EXCEPT ![c] = "closed"]
  /\ UNCHANGED <<clients, clientServer, nextClient, req, resp,
                 chatVars, uiVars, hostVars>>

\* direct connects to servers that may exit
NextExit ==
  \/ \E p \in Procs :
       \/ RegistryConnect(p)
       \/ ConnectTeardownDone(p)
       \/ ConnectHandshake(p)
       \/ ConnectCleanupDone(p)
       \/ ConnectInstall(p)
       \/ Finish(p)
  \/ \E c \in ClientIds : ServerExit(c)

SpecExit == Init /\ [][NextExit]_vars

\* test requests
NextTest ==
  \E p \in Procs :
    \/ TestStart(p)
    \/ TestTeardownDone(p)
    \/ ConnectTeardownDone(p)
    \/ ConnectHandshake(p)
    \/ ConnectCleanupDone(p)
    \/ ConnectInstall(p)
    \/ TestDiscoverDone(p)
    \/ Finish(p)

SpecTest == Init /\ [][NextTest]_vars

\* disconnectAll next to direct connects
NextDisconnectAll ==
  \E p \in Procs :
    \/ RegistryConnect(p)
    \/ ConnectTeardownDone(p)
    \/ ConnectHandshake(p)
    \/ ConnectCleanupDone(p)
    \/ ConnectInstall(p)
    \/ DisconnectAllStart(p)
    \/ DisconnectAllCloseDone(p)
    \/ Finish(p)

SpecDisconnectAll == Init /\ [][NextDisconnectAll]_vars

\* ------------------------------------------------- browser: MCPProvider
\* the state of a server as addServer puts it into `servers`
Disconnected ==
  [status |-> "disconnected", tools |-> "empty", prompts |-> "empty",
   resources |-> "empty"]

\* setServers(prev => prev.map(s => s.config.id === serverId ? f(s) : s))
SetServer(serverId, state) ==
  [id \in DOMAIN servers |-> IF id = serverId THEN state ELSE servers[id]]

\* connectServer(serverId) up to its fetch: the server must have been added;
\* its status becomes "connecting" and its configuration is posted
UiConnectServer(p) ==
  \E id \in DOMAIN servers, cfg \in Configs :
    /\ ConnectRequest(p, id, cfg)
    /\ servers' = SetServer(id, [servers[id] EXCEPT !.status = "connecting"])
    /\ UNCHANGED hostVars

\* disconnectServer(serverId) up to its fetch
UiDisconnectServer(p) ==
  /\ \E id \in DOMAIN servers : DisconnectRequest(p, id)
  /\ UNCHANGED <<uiVars, hostVars>>

\* a variant of AfterResponse: a successful disconnect keeps the lists
AfterResponseKeepsLists(op, r, state) ==
  IF op = "connect"
    THEN IF r.status = 200
           THEN [status |-> "connected", tools |-> r.tools,
                 prompts |-> r.prompts, resources |-> r.resources]
           ELSE [state EXCEPT !.status = "error"]
    ELSE IF r.status = 200 THEN [state EXCEPT !.status = "disconnected"]
         ELSE state

\* the state connectServer and disconnectServer set when the response of
\* their fetch has arrived; a failed disconnect changes nothing
AfterResponse(op, r, state) ==
  IF op = "connect"
    THEN IF r.status = 200
           THEN [status |-> "connected", tools |-> r.tools,
                 prompts |-> r.prompts, resources |-> r.resources]
           ELSE [state EXCEPT !.status = "error"]
    ELSE IF r.status = 200 THEN Disconnected ELSE state

\* the response of a fetch arrives in the browser
UiResponse(p) ==
  /\ Delivered(p)
  /\ servers' = IF req[p].id \in DOMAIN servers
                  THEN SetServer(req[p].id,
                         AfterResponse(req[p].op, resp[p], servers[req[p].id]))
                  ELSE servers
  /\ UNCHANGED hostVars

\* the browser with server "a" added, and the routes it calls
InitUI ==
  /\ clients = [id \in ServerIds |-> NoClient]
  /\ clientState = [c \in ClientIds |-> "unused"]
  /\ clientServer = [c \in ClientIds |-> "a"]
  /\ nextClient = 1
  /\ req = [p \in Procs |-> IdleReq]
  /\ resp = [p \in Procs |-> NoResp]
  /\ ChatIdle
  /\ servers = [id \in {"a"} |-> Disconnected]
  /\ now = 0
  /\ spawned = NoSpawn

NextUI ==
  \E p \in Procs :
    \/ UiConnectServer(p)
    \/ ConnectTeardownDone(p)
    \/ ConnectHandshake(p)
    \/ ConnectCleanupDone(p)
    \/ ConnectInstall(p)
    \/ ConnectDiscoverStart(p)
    \/ ConnectDiscoverDone(p)
    \/ UiDisconnectServer(p)
    \/ DisconnectCloseDone(p)
    \/ UiResponse(p)

SpecUI == InitUI /\ [][NextUI]_vars

\* a chat request against a registry with both servers connected, while a
\* disconnect request may arrive
InitChat ==
  /\ clients = [id \in ServerIds |-> IF id = "a" THEN 1 ELSE 2]
  /\ clientState = [c \in ClientIds |-> IF c <= 2 THEN "open" ELSE "unused"]
  /\ clientServer = [c \in ClientIds |-> IF c = 2 THEN "a__b" ELSE "a"]
  /\ nextClient = 3
  /\ req = [p \in Procs |-> IdleReq]
  /\ resp = [p \in Procs |-> NoResp]
  /\ ChatIdle
  /\ servers = <<>>
  /\ now = 0
  /\ spawned = NoSpawn

NextChat ==
  \/ ChatStart
  \/ ChatSetupListed
  \/ ChatModelThrows
  \/ ChatModelResponds
  \/ ChatToolDone
  \/ ChatUploadDone
  \/ DisconnectStart(1)
  \/ DisconnectCloseDone(1)

SpecChat == InitChat /\ [][NextChat]_vars

\* the chat request alone, with every await of its handler settling at some
\* time: listTools, chat.sendMessage (it returns or throws), callTool and the
\* image upload.  No request has to arrive.
NextChatOnly ==
  \/ ChatStart
  \/ ChatSetupListed
  \/ ChatModelThrows
  \/ ChatModelResponds
  \/ ChatToolDone
  \/ ChatUploadDone

AwaitsSettle ==
  /\ WF_vars(ChatSetupListed)
  /\ WF_vars(ChatModelThrows \/ ChatModelResponds)
  /\ WF_vars(ChatToolDone)
  /\ WF_vars(ChatUploadDone)

SpecChatFair == InitChat /\ [][NextChatOnly]_vars /\ AwaitsSettle

\* createTransport builds a stdio transport in a process with environment
\* `ambient` for a configuration with env `config`
StdioSpawn ==
  /\ \E ambient \in [EnvKeys -> AmbientValues],
        config \in [EnvKeys -> ConfigValues] :
       spawned' = [ambient |-> ambient, config |-> config,
                   env |-> ChildEnv(ambient, config)]
  /\ UNCHANGED <<regVars, chatVars, uiVars, now>>

SpecEnv == Init /\ [][StdioSpawn]_vars

\* the latest tick of the clock
MaxTime == 1

\* time passes: Date.now() is read from a clock that does not run backwards
Tick ==
  /\ now < MaxTime
  /\ now' = now + 1
  /\ UNCHANGED <<regVars, chatVars, uiVars, spawned>>

\* the chat request alone, while time passes
NextChatTimed ==
  \/ ChatStart
  \/ ChatSetupListed
  \/ ChatModelThrows
  \/ ChatModelResponds
  \/ ChatToolDone
  \/ ChatUploadDone
  \/ Tick

SpecChatTimed == InitChat /\ [][NextChatTimed]_vars

\* the most records a run of SpecAnswer collects: one per pass of the loop
\* that is followed by another pass
MaxAnswerRecords == 9

\* the model proposes at most one function call per response, and only
\* names that resolve
ChatModelProposesKnown ==
  /\ ChatModelReply(MaxAnswerRecords)
  /\ Len(response'.calls) <= 1
  /\ Resolvable(response'.calls) = Len(response'.calls)

\* the server answers the call with a text result
ChatToolSucceeds ==
  /\ ChatToolDone
  /\ chatPc' # "upload"
  /\ toolCalls'[Len(toolCalls')].status = "success"

\* a chat request whose function calls all resolve and all succeed, one per
\* round, against servers that stay connected
NextAnswer ==
  \/ ChatStart
  \/ ChatSetupListed
  \/ ChatModelProposesKnown
  \/ ChatToolSucceeds

SpecAnswer == InitChat /\ [][NextAnswer]_vars

\* ================================================================= claims

\* ------------------------------------------------------------------- C1
\* C1 as stated: one chat request makes at most 10 model calls in total, the
\* first turn included; an 11th call of chat.sendMessage is never made.
C1_AtMostTenModelCalls == modelCalls <= 10

\* C1 amended: one chat request makes at most 11 model calls, the first turn
\* and at most 10 function-result turns (one per pass of the loop, which
\* runs at most maxIterations times); a 12th call is never made.
C1_AtMostElevenModelCalls ==
  /\ iterationCount <= maxIterations
  /\ modelCalls <= maxIterations + 1
  /\ chatPc \in {"model", "tool", "upload"} => modelCalls <= iterationCount + 1

\* the model proposed a function call in every response and the 11th model
\* call was made
C1_Witness ==
  /\ modelCalls = maxIterations + 1
  /\ iterationCount = maxIterations
  /\ chatPc = "model"

\* ------------------------------------------------------------------- C2
OpenClients(id) ==
  {c \in ClientIds : clientServer[c] = id /\ clientState[c] = "open"}

Handshaking(p, id) ==
  /\ req[p].op = "connect"
  /\ req[p].id = id
  /\ req[p].pc \in {"c_handshake", "c_settle"}

\* C2 as stated: per server id at most one client is open and not yet
\* closed, the handle of the id, when present, is that client, and two
\* connects for one id never have their handshakes in progress together.
C2_OneOpenClientPerId ==
  \A id \in ServerIds :
    /\ Cardinality(OpenClients(id)) <= 1
    /\ isConnected(id) => OpenClients(id) \subseteq {clients[id]}
    /\ \A p, q \in Procs : Handshaking(p, id) /\ Handshaking(q, id) => p = q

\* ------------------------------------------------------------------- C3
\* C3: when the handshake of connect fails, close is tried on the new client
\* (the request waits for that close), the route then answers with the
\* handshake's error whether or not the close failed, the handle table is
\* not changed by these steps, and the client of a failed connect is never
\* the handle of any id.
C3_FailedStep(p) ==
  /\ (req[p].pc = "c_handshake" /\ req'[p].pc # "c_handshake"
        /\ clientState'[req[p].client] # "open")
       => req'[p].pc = "c_cleanup" /\ clients' = clients
  /\ (req[p].pc = "c_cleanup" /\ req'[p].pc # "c_cleanup")
       => /\ req'[p].pc = "done"
          /\ resp'[p] = ErrorResp(500, HandshakeError)
          /\ clients' = clients

C3_NeverInstalled ==
  \A p \in Procs :
    (req[p].op = "connect" /\ req[p].client # NoClient
       /\ clientState[req[p].client] # "open")
      => \A id \in ServerIds : clients[id] # req[p].client

C3_HandshakeFailure ==
  /\ [][\A p \in Procs : C3_FailedStep(p)]_vars
  /\ []C3_NeverInstalled

\* a connect has answered with the handshake's error although the close of
\* its client failed too, and its id has no handle
C3_Witness ==
  \E p \in Procs :
    /\ req[p].op = "connect"
    /\ req[p].pc = "done"
    /\ resp[p].error = HandshakeError
    /\ clientState[req[p].client] = "new"
    /\ ~isConnected(req[p].id)

\* ------------------------------------------------------------------- C4
StdioNoCommand == [transport |-> "stdio", command |-> FALSE, url |-> "none"]

\* C4 as stated: every step of a connect given a stdio configuration without
\* a command ends the call with the configuration error, constructs no
\* client and leaves the handle table and the clients as they were, also
\* when the id has a live handle.
C4_Step(p) ==
  (/\ req'[p] # req[p]
   /\ req'[p].op \in {"connect", "call"}
   /\ req'[p].cfg = StdioNoCommand)
    => /\ req'[p].pc = "done"
       /\ resp'[p].error = "STDIO transport requires a command"
       /\ clients' = clients
       /\ clientState' = clientState
       /\ nextClient' = nextClient

C4_ConfigurationError == [][\A p \in Procs : C4_Step(p)]_vars

\* ------------------------------------------------------------------- C5
\* C5 as stated: of two overlapping disconnect calls for one id only one
\* finds the handle and closes the client; the other sees the id as absent.
C5_ClosedOnce ==
  \A p, q \in Procs :
    (/\ req[p].op = "disconnect" /\ req[q].op = "disconnect"
     /\ req[p].pc = "d_close" /\ req[q].pc = "d_close"
     /\ req[p].inst = req[q].inst)
      => p = q

\* ------------------------------------------------------------------- C6
\* C6 as stated: a connect whose discovery calls did not all answer within
\* the timeout still answers with success, the lists that timed out empty.
C6_TimeoutGivesEmptyList ==
  \A p \in Procs :
    (req[p].op = "connect" /\ req[p].pc = "done" /\ req[p].silent # {})
      => /\ resp[p].status = 200
         /\ "tools" \in req[p].silent => resp[p].tools = "empty"
         /\ "prompts" \in req[p].silent => resp[p].prompts = "empty"
         /\ "resources" \in req[p].silent => resp[p].resources = "empty"

\* ------------------------------------------------------------------- C7
\* C7 as stated: the selections registered in one run have pairwise distinct
\* function names, and toolMap maps the name of each back to it.
C7_NamesResolveBack ==
  \A s \in registered :
    /\ toolMap[FunctionName(s.serverId, s.toolName)] = s
    /\ \A t \in registered :
         FunctionName(s.serverId, s.toolName) = FunctionName(t.serverId, t.toolName)
           => s = t

\* ------------------------------------------------------------------- C8
Range(f) == {f[k] : k \in DOMAIN f}

RecordSelection(rec) == [serverId |-> rec.serverId, toolName |-> rec.toolName]

\* C8, the state part: callTool is invoked only for registered selections,
\* which are enabled selections whose tool the server lists; every record
\* belongs to one; and while a round is executed every call whose name is
\* not a key of toolMap has the "Unknown tool" error response.
C8_OnlyRegistered ==
  /\ called \subseteq registered
  /\ registered \subseteq Range(enabledTools)
  /\ \A s \in registered : s.toolName \in LiveTools(s.serverId)
  /\ \A k \in 1..Len(toolCalls) : RecordSelection(toolCalls[k]) \in registered
  /\ chatPc \in {"model", "tool", "upload"} =>
       \A k \in 1..Len(functionResponses) :
         ~Known(toolMap, response.calls[k])
           => functionResponses[k] = UnknownToolResponse(response.calls[k])

\* C8, the step part: a listTools call is made only for a selection whose
\* server is connected at that moment, only the selection whose listTools
\* call returns is registered, and a step that answers a call with "Unknown
\* tool" neither invokes callTool nor adds a record for it.
C8_Step ==
  /\ (chatPc' = "setup" /\ (chatPc # "setup" \/ setupIdx' # setupIdx))
       => isConnected(enabledTools'[setupIdx'].serverId)
  /\ registered' # registered
       => chatPc = "setup" /\ registered' = registered \cup {enabledTools[setupIdx]}
  /\ (called' # called \/ toolCalls' # toolCalls)
       => \E k \in 1..Len(response'.calls) : Known(toolMap, response'.calls[k])

C8_ToolCallsResolved == []C8_OnlyRegistered /\ [][C8_Step]_vars

\* the model proposed serverId__toolName of a connected server's listed tool
\* that is not enabled, together with a registered name: the first got the
\* "Unknown tool" response and callTool ran for the second only
C8_Witness ==
  /\ chatPc = "tool"
  /\ response.calls = <<"a__c", "a__b__c">>
  /\ isConnected("a")
  /\ functionResponses = <<UnknownToolResponse("a__c")>>
  /\ Cardinality(called) = 1

\* ------------------------------------------------------------------- C9
\* C9 as stated: a run that stops at the round limit while the model still
\* proposes function calls returns a truncation note, whatever the text of
\* the last response.
C9_TruncationReported ==
  (chatPc = "done" /\ chatResp.status = 200 /\ response.calls # <<>>)
    => chatResp.content = FallbackText

\* ------------------------------------------------------------------ C10
\* C10 as stated: when a model call fails after tool calls were executed,
\* the response still carries a text and the records of those calls.
C10_RecordsSurviveModelFailure ==
  (chatPc = "done" /\ chatResp.error = ServerErrorText /\ toolCalls # <<>>)
    => chatResp.content # "" /\ chatResp.toolCalls = toolCalls

\* ------------------------------------------------------------------ C11
InRound == chatPc \in {"tool", "upload"}

\* the first call of the round that a step starts with: the one after the
\* call in progress, or the first call of a new response
FirstNewCall == IF InRound THEN callIdx + 1 ELSE 1

\* C11, a call made when its server has no handle: the calls a step starts
\* for a server without a handle get a record with status "error" carrying
\* the error of getClient and an error function response, and the step goes
\* on with the calls after them.
C11_NoHandleStep ==
  /\ \A j \in (Len(toolCalls) + 1)..Len(toolCalls') :
       ~isConnected(toolCalls'[j].serverId)
         => /\ toolCalls'[j].status = "error"
            /\ toolCalls'[j].error = getClient(toolCalls'[j].serverId)
  /\ (chatPc' \in {"tool", "upload", "model"} /\ chatVars' # chatVars)
       => \A k \in FirstNewCall..Len(functionResponses') :
            LET info == Resolve(toolMap, response'.calls[k])
            IN (info.serverId # "" /\ ~isConnected(info.serverId))
                 => functionResponses'[k] =
                      ErrorResponse(response'.calls[k],
                                    getClient(info.serverId))

\* C11, a server disconnected while its tool is called: when the call
\* settles after its client was closed, its record gets status "error" and
\* its function response is an error; the round goes on.
C11_ClosedDuringCallStep ==
  (chatPc = "tool" /\ chatVars' # chatVars
     /\ clientState[callClient] = "closed")
    => /\ toolCalls'[Len(toolCalls)].status = "error"
       /\ functionResponses'[callIdx].kind = "error"

\* C11, the request does not fail: a step that executes calls never sends
\* the error response, and when the batch goes to the model every call of
\* the round has its function response.
C11_RoundGoesOn ==
  /\ InRound => chatPc' \in {"tool", "upload", "model"} /\ chatResp' = chatResp
  /\ (chatPc' = "model" /\ response'.calls # <<>> /\ modelCalls' # modelCalls)
       => Len(functionResponses') = Len(response'.calls)

C11_DisconnectedServerCall ==
  [][C11_NoHandleStep /\ C11_ClosedDuringCallStep /\ C11_RoundGoesOn]_vars

\* in one round a call for disconnected server a got its error record, the
\* call for server a__b after it was executed with success, and the batch of
\* both responses went to the model
C11_Witness ==
  /\ chatPc = "model"
  /\ response.calls = <<"a__c", "a__b__c">>
  /\ Len(toolCalls) = 2
  /\ toolCalls[1].serverId = "a" /\ toolCalls[1].status = "error"
  /\ toolCalls[1].error = getClient("a")
  /\ toolCalls[2].serverId = "a__b" /\ toolCalls[2].status = "success"
  /\ functionResponses = <<ErrorResponse("a__c", getClient("a")),
                           ResultResponse("a__b__c", "text")>>

\* ------------------------------------------------------------------ C12
\* C12: in the record of a result with images, after a successful upload the
\* image item that carried data has the url and no data, after a failed
\* upload it is the original item (data and mime type kept, no url); in both
\* cases the status is "success" and the text item and the image item
\* without data are as the server returned them.  No item of any record has
\* both data and a url.
C12_ImageRehoming ==
  \A j \in 1..Len(toolCalls) :
    LET rec == toolCalls[j]
    IN /\ \A k \in 1..Len(rec.content) :
            ~(rec.content[k].data # "" /\ rec.content[k].url # "")
       /\ rec.upload # "none"
            => /\ rec.status = "success"
               /\ Len(rec.content) = 3
               /\ rec.content[1] = TextItem
               /\ rec.content[3] = ImageNoData
               /\ rec.content[2].type = "image"
               /\ rec.content[2].mimeType = "image/jpeg"
       /\ rec.upload = "stored"
            => rec.content[2].url = StoredUrl /\ rec.content[2].data = ""
       /\ rec.upload = "failed"
            => rec.content[2].url = "" /\ rec.content[2].data = "base64"

\* a run returned one record whose upload failed and one whose upload
\* succeeded
C12_Witness ==
  /\ chatPc = "done"
  /\ chatResp.status = 200
  /\ Len(chatResp.toolCalls) = 2
  /\ chatResp.toolCalls[1].upload = "failed"
  /\ chatResp.toolCalls[2].upload = "stored"

\* ------------------------------------------------------------------ C13
\* C13, the steps of a cycle: the step in which a disconnect succeeds leaves
\* the id without a handle and out of the connected ids; when the browser
\* gets that response the server's state is "disconnected" with empty tools,
\* prompts and resources; and the step in which a connect installs its
\* handle makes the id connected with the open client of that connect,
\* whatever happened to the id before.
C13_Step(p) ==
  /\ (req[p].pc = "d_close" /\ resp'[p].status = 200)
       => /\ ~isConnected(req[p].id)'
          /\ req[p].id \notin getConnectedServerIds'
  /\ (/\ req[p].op = "disconnect" /\ req[p].pc = "done"
      /\ resp[p].status = 200 /\ req'[p].pc = "idle"
      /\ req[p].id \in DOMAIN servers)
       => servers'[req[p].id] = Disconnected
  /\ (req[p].pc = "c_settle" /\ req'[p].pc # "c_settle")
       => /\ isConnected(req[p].id)'
          /\ req[p].id \in getConnectedServerIds'
          /\ clients'[req[p].id] = req[p].client
          /\ clientState'[req[p].client] = "open"

\* C13, the state kept for a disconnected server holds no capabilities
C13_NoResidue ==
  \A id \in DOMAIN servers :
    servers[id].status = "disconnected" => servers[id] = Disconnected

C13_ConnectDisconnectCycle ==
  /\ [][\A p \in Procs : C13_Step(p)]_vars
  /\ []C13_NoResidue

\* the first client of "a" was connected and closed, a disconnect of "a" has
\* answered with success, and a connect after it has installed the second
\* client, which is open
C13_Witness ==
  \E p, q \in Procs :
    /\ req[p].op = "disconnect" /\ req[p].pc = "done" /\ req[p].id = "a"
    /\ resp[p].status = 200
    /\ req[q].op = "connect" /\ req[q].pc = "r_settle" /\ req[q].id = "a"
    /\ clientState[1] = "closed"
    /\ isConnected("a") /\ clients["a"] = 2 /\ clientState[2] = "open"

\* ------------------------------------------------------------------ C14
\* C14: an operation (listTools, listPrompts, listResources, callTool,
\* getPrompt, readResource) on an id without a handle ends in its first step
\* with a "not connected" error: no request is sent on any client, and the
\* handle table and every client are as they were.
C14_Step(p) ==
  (/\ req[p].op = "idle"
   /\ req'[p].op \in Operations \cup {Direct(kind) : kind \in Operations}
   /\ ~isConnected(req'[p].id))
    => /\ req'[p].pc = "done"
       /\ resp'[p].error \in {NotConnectedError, getClient(req'[p].id)}
       /\ ~req'[p].sent /\ req'[p].inst = NoClient
       /\ clients' = clients
       /\ clientState' = clientState

\* C14, the other handles stay usable: an operation that has answered "not
\* connected" leaves every id that has a handle with that handle, on which
\* an operation can be started.
C14_OthersUsable ==
  \A p \in Procs :
    (/\ req[p].pc = "done"
     /\ req[p].op \in Operations \cup {Direct(kind) : kind \in Operations}
     /\ resp[p].error \in {NotConnectedError, getClient(req[p].id)})
      => /\ ~req[p].sent
         /\ \A q \in Procs, id \in getConnectedServerIds :
              req[q].op = "idle" => ENABLED UseStart(q)

C14_NotConnectedOperation ==
  [][\A p \in Procs : C14_Step(p)]_vars /\ []C14_OthersUsable

\* callTool on "a", which has no handle, has failed in getClient while an
\* operation on the connected server "a__b" is in progress on its open client
C14_Witness ==
  \E p, q \in Procs :
    /\ req[p].op = Direct("callTool") /\ req[p].id = "a" /\ req[p].pc = "done"
    /\ resp[p].error = getClient("a")
    /\ ~isConnected("a")
    /\ req[q].op = "readResource" /\ req[q].id = "a__b" /\ req[q].pc = "u_wait"
    /\ isConnected("a__b") /\ clientState[clients["a__b"]] = "open"
\* ------------------------------------------------------------------ C15
\* C15 as stated, for a run of SpecAnswer (every proposed call resolves and
\* succeeds, one call per pass of the loop, so that k is the number of
\* passes before the one that brought the answer): when the model answers
\* with a response without function calls whose text is T, the chat response
\* has content T and exactly k records, all with status "success"; when the
\* first response has no function calls, one model call was made and no
\* record is returned.
C15_AnswerAfterCalls ==
  (chatPc = "done" /\ chatResp.status = 200 /\ response.calls = <<>>) =>
     /\ chatResp.content = answerText
     /\ Len(chatResp.toolCalls) = iterationCount - 1
     /\ \A k \in 1..Len(chatResp.toolCalls) :
          chatResp.toolCalls[k].status = "success"
     /\ iterationCount = 1 => (modelCalls = 1 /\ chatResp.toolCalls = <<>>)

\* the part of C15 the code keeps: the same, except that an empty text that
\* arrives in pass maxIterations of the loop is replaced
C15_AnswerBeforeLastPass ==
  (chatPc = "done" /\ chatResp.status = 200 /\ response.calls = <<>>) =>
     /\ (iterationCount < maxIterations \/ answerText # "") =>
          chatResp.content = answerText
     /\ (iterationCount >= maxIterations /\ answerText = "") =>
          chatResp.content = FallbackText
     /\ Len(chatResp.toolCalls) = iterationCount - 1
     /\ \A k \in 1..Len(chatResp.toolCalls) :
          chatResp.toolCalls[k].status = "success"
     /\ iterationCount = 1 => (modelCalls = 1 /\ chatResp.toolCalls = <<>>)
\* ------------------------------------------------------------------ C16
\* a step of the chat request leaves the handle table and the clients as
\* they were, and a step in which a tool call settles does not end the
\* request
C16_Step ==
  chatVars' # chatVars =>
     /\ clients' = clients
     /\ clientState' = clientState
     /\ clientServer' = clientServer
     /\ chatPc = "tool" => chatPc' \in {"tool", "upload", "model"}

\* C16: an orchestration run never adds, removes or replaces a handle in the
\* registry: a tool call that throws or returns an error result on a server
\* leaves the handle of that server and of all others exactly as they were,
\* and the run continues.
C16_RunLeavesRegistry == [][C16_Step]_vars

\* a run has ended normally after a tool call on a server threw and another
\* returned an error result, and both servers still have their handles
C16_Witness ==
  /\ chatPc = "done"
  /\ chatResp.status = 200
  /\ \E k \in 1..Len(toolCalls) :
       /\ toolCalls[k].status = "error"
       /\ toolCalls[k].error = ToolThrewError
       /\ clients[toolCalls[k].serverId] # NoClient
  /\ \E k \in 1..Len(toolCalls) :
       /\ toolCalls[k].status = "error"
       /\ toolCalls[k].content = TextResult
  /\ clients = [id \in ServerIds |-> IF id = "a" THEN 1 ELSE 2]
\* ------------------------------------------------------------------ C17
\* C17: assuming every model call, tool call and image upload eventually
\* returns or fails, every chat request eventually produces a response to
\* the caller, whatever the model does, also when it proposes function calls
\* in every response.
C17_EveryRequestAnswered ==
  (chatPc # "idle") ~> (chatPc = "done" /\ chatResp.status # 0)

\* a request was answered although the model proposed function calls in
\* every one of its responses, the one after the last pass included
C17_Witness ==
  /\ chatPc = "done"
  /\ chatResp.status = 200
  /\ iterationCount = maxIterations
  /\ modelCalls = maxIterations + 1
  /\ response.calls # <<>>
\* ------------------------------------------------------------------ C18
\* the step in which connect resumes after the close of the old client: the
\* close error is not raised, and with a configuration a transport can be
\* built for, connect is at the handshake of a new client
C18_Step(p) ==
  (req[p].pc = "c_teardown" /\ req'[p] # req[p]) =>
     /\ resp'[p].error # CloseError
     /\ createTransport(req[p].cfg) = "ok" =>
          /\ req'[p].pc = "c_handshake"
          /\ clientState'[req'[p].client] = "new"

\* C18 as stated: connect(config) for an id that already has a handle tears
\* the old handle down before the new transport is built, and when closing
\* the old client fails the error is swallowed and connect goes on to
\* handshake and install the new handle.
C18_TeardownErrorSwallowed == [][\A p \in Procs : C18_Step(p)]_vars
\* ------------------------------------------------------------------ C19
\* the step in which disconnectAll completes: it has not raised, and of the
\* ids it was called for, every one but the one whose close failed in this
\* step has lost the handle it had
C19_Step(p) ==
  (req[p].pc = "da_wait" /\ req'[p].pc # "da_wait") =>
     LET failed == IF resp'[p].error # ""
                     THEN req[p].pending \ req'[p].pending ELSE {}
     IN /\ resp'[p].error = ""
        /\ \A id \in (DOMAIN req[p].closing) \ failed :
             clients'[id] # req[p].closing[id]

\* C19 as stated: disconnectAll attempts to close every id known when it is
\* called; if closing one id fails, disconnectAll does not raise, and the
\* handle of every other id is removed by the time disconnectAll completes.
C19_BestEffortTeardown == [][\A p \in Procs : C19_Step(p)]_vars

\* the second half of C19 alone: when disconnectAll completes, every id it
\* was called for, but the one whose close failed, has lost its handle
C19_OthersRemoved ==
  [][\A p \in Procs :
       (req[p].pc = "da_wait" /\ req'[p].pc # "da_wait") =>
          \A id \in (DOMAIN req[p].closing) \
                      (IF resp'[p].error # ""
                         THEN req[p].pending \ req'[p].pending ELSE {}) :
             clients'[id] # req[p].closing[id]]_vars
\* ------------------------------------------------------------------ C20
\* the selections of the calls of `calls` from index i on that resolve, in
\* the order of the calls
RECURSIVE ProposedSelections(_, _)
ProposedSelections(calls, i) ==
  IF i > Len(calls) THEN <<>>
  ELSE LET info == Resolve(toolMap, calls[i])
       IN IF info.serverId = "" THEN ProposedSelections(calls, i + 1)
          ELSE <<info>> \o ProposedSelections(calls, i + 1)

\* a step of the chat request appends records and never moves one; the step
\* that sends a batch to the model sends one function response per call of
\* the round, in the order of the calls and with their names, and the
\* round's records are at the end of the list in the order of the calls
\* that resolved; the response returns the list as it is
C20_Step ==
  chatVars' # chatVars =>
     /\ Len(toolCalls') >= Len(toolCalls)
     /\ \A k \in 1..Len(toolCalls) :
          /\ RecordSelection(toolCalls'[k]) = RecordSelection(toolCalls[k])
          /\ k < Len(toolCalls) => toolCalls'[k] = toolCalls[k]
     /\ (modelCalls >= 1 /\ modelCalls' = modelCalls + 1) =>
          LET calls == response'.calls
              sels == ProposedSelections(calls, 1)
              base == Len(toolCalls') - Len(sels)
          IN /\ Len(functionResponses') = Len(calls)
             /\ \A k \in 1..Len(calls) : functionResponses'[k].name = calls[k]
             /\ base >= 0
             /\ \A j \in 1..Len(sels) :
                  RecordSelection(toolCalls'[base + j]) = sels[j]
     /\ (chatPc' = "done" /\ chatResp'.status = 200) =>
          chatResp'.toolCalls = toolCalls'

\* C20: in every round the batch sent back to the model contains exactly one
\* function response per function call proposed in that round, in proposal
\* order and carrying the proposed call's name, including for unresolved and
\* failed calls; the records in the returned list appear in the order their
\* calls were proposed across all rounds.
C20_ProposalOrder == [][C20_Step]_vars

\* the batch of a second round was sent: its first call was unresolved, its
\* second failed, and the list holds the records of both rounds
C20_Witness ==
  /\ chatPc = "model"
  /\ iterationCount = 2
  /\ Len(response.calls) = 2
  /\ functionResponses =
       <<UnknownToolResponse(response.calls[1]),
         ErrorResponse(response.calls[2], ToolThrewError)>>
  /\ Len(toolCalls) = 2
  /\ toolCalls[1].status = "success"
  /\ toolCalls[2].status = "error"
\* ------------------------------------------------------------------ C21
\* a record as it is when it is pushed
C21_Created(rec) ==
  /\ rec.content = <<>> /\ rec.upload = "none" /\ rec.result = "none"
  /\ \/ rec.status = "running" /\ rec.error = "" /\ rec.endTime = NoTime
     \/ \* callTool threw before its first await, in the step of the push
        /\ rec.status = "error"
        /\ rec.error = getClient(rec.serverId)
        /\ rec.endTime = rec.startTime

\* a step appends records as they are when pushed, changes a running record
\* at most by finishing it, and leaves a finished record as it is
C21_Step ==
  /\ Len(toolCalls') >= Len(toolCalls)
  /\ \A k \in 1..Len(toolCalls') :
       IF k > Len(toolCalls) THEN C21_Created(toolCalls'[k])
       ELSE IF toolCalls[k].status = "running"
         THEN /\ toolCalls'[k].status \in {"running", "success", "error"}
              /\ toolCalls'[k].status = "running" =>
                   toolCalls'[k] = toolCalls[k]
              /\ toolCalls'[k].startTime = toolCalls[k].startTime
         ELSE toolCalls'[k] = toolCalls[k]

\* every record of a response has finished, ended no earlier than it
\* started, and is a success exactly when its server returned a result that
\* is not flagged as an error
C21_Returned ==
  \A k \in 1..Len(chatResp.toolCalls) :
    LET rec == chatResp.toolCalls[k]
    IN /\ rec.status \in {"success", "error"}
       /\ rec.endTime # NoTime
       /\ rec.endTime >= rec.startTime
       /\ rec.status = "success" <=> rec.result = "result"

\* C21: every ToolInvocationRecord is created with status "running", changes
\* status exactly once to "success" or "error", and is not modified
\* afterwards; every record in a returned response has status "success" or
\* "error", an end time not earlier than its start time, and status
\* "success" exactly when the server returned a non-error result.
C21_RecordLifecycle == [][C21_Step]_vars /\ []C21_Returned

\* a response returns a success that took time and an error result
C21_Witness ==
  /\ chatPc = "done"
  /\ Len(chatResp.toolCalls) = 2
  /\ chatResp.toolCalls[1].status = "success"
  /\ chatResp.toolCalls[1].endTime > chatResp.toolCalls[1].startTime
  /\ chatResp.toolCalls[2].status = "error"
  /\ chatResp.toolCalls[2].result = "isError"
\* ------------------------------------------------------------------ C22
\* a step of the setup loop, from the selection at index setupIdx (none when
\* the request arrives) to the one whose listTools call is made next: the
\* selections passed over are those of servers without a handle, the step
\* adds at most the declaration and the table entry of the selection whose
\* listTools call has settled, and the request goes on to the next selection
\* or to the model
C22_Step ==
  (chatPc \in {"idle", "setup"} /\ chatVars' # chatVars /\ chatResp' = NoChatResp)
   => LET tools == enabledTools'
          i == setupIdx
          j == setupIdx'
      IN /\ chatPc' \in {"setup", "model"}
         /\ chatPc' = "model" <=> j > Len(tools)
         /\ chatPc' = "model" => modelCalls' = 1
         /\ j <= Len(tools) => isConnected(tools[j].serverId)
         /\ mcpEnabled' =>
              \A k \in (i + 1)..(j - 1) : ~isConnected(tools[k].serverId)
         /\ \/ /\ functionDeclarations' = functionDeclarations
               /\ toolMap' = toolMap
               /\ registered' = registered
            \/ /\ chatPc = "setup"
               /\ tools[i].toolName \in LiveTools(tools[i].serverId)
               /\ functionDeclarations' =
                    Append(functionDeclarations,
                           FunctionName(tools[i].serverId, tools[i].toolName))
               /\ toolMap' = MapSet(toolMap,
                      FunctionName(tools[i].serverId, tools[i].toolName),
                      tools[i])
               /\ registered' = registered \cup {tools[i]}

\* C22: an enabled selection whose server is not connected at setup, or
\* whose listTools call fails, is skipped: no function declaration and no
\* table entry is created for it, the remaining selections are still
\* registered, and the request goes on to call the model.
C22_StaleSelectionSkipped == [][C22_Step]_vars

\* the model is called with the second selection registered, after the
\* listTools call for the first, a tool its connected server lists, failed
C22_Witness ==
  /\ chatPc = "model"
  /\ modelCalls = 1
  /\ enabledTools = <<[serverId |-> "a", toolName |-> "c"],
                      [serverId |-> "a__b", toolName |-> "c"]>>
  /\ isConnected("a")
  /\ functionDeclarations = <<"a__b__c">>
  /\ DOMAIN toolMap = {"a__b__c"}
\* ------------------------------------------------------------------ C23
\* what C23 asks of the child's value for key k: the configured value when
\* it is a non-empty string, else the ambient value when that is non-empty
C23_Expected(ambient, config, k) ==
  IF config[k] \notin {Absent, Undefined, ""} THEN config[k]
  ELSE IF ambient[k] # "" THEN ambient[k]
  ELSE Absent

\* C23 as stated: the environment of a stdio child is the ambient
\* environment overlaid with the configuration's pairs after empty-string
\* and undefined configuration values have been dropped: a configuration
\* value "" for key K neither removes nor blanks a non-empty ambient value
\* of K, and the environment has no key with an empty-string value.
C23_EnvOverlay ==
  spawned # NoSpawn =>
    \A k \in EnvKeys :
      /\ spawned.env[k] = C23_Expected(spawned.ambient, spawned.config, k)
      /\ spawned.env[k] # ""

\* the part of C23 the code keeps: no key of the child's environment holds
\* the empty string or undefined, and a non-empty configured value wins
C23_NoEmptyValues ==
  spawned # NoSpawn =>
    \A k \in EnvKeys :
      /\ spawned.env[k] \notin {"", Undefined}
      /\ spawned.config[k] = "configured" => spawned.env[k] = "configured"
\* ------------------------------------------------------------------ C24
\* the step in which the connect route answers with an error: the client
\* this call built, if it built one, is not the handle of the id
C24_Step(p) ==
  (req'[p].op = "connect" /\ resp[p] = NoResp /\ resp'[p].status >= 400) =>
     \/ req[p].client = NoClient
     \/ clients'[req'[p].id] # req[p].client

\* C24 as stated: whenever the connect boundary operation answers with an
\* error for a configuration (validation error, handshake failure, or a
\* failure or timeout of the discovery that follows a successful handshake),
\* the registry holds no handle for config.id that this call installed.
C24_FailedConnectLeavesNoHandle == [][\A p \in Procs : C24_Step(p)]_vars
\* ------------------------------------------------------------------ C25
\* the step in which a disconnect resumes after its close: a handle other
\* than the one the disconnect found when it started stays in the table
C25_Step(p) ==
  (req[p].pc = "d_close" /\ req'[p].pc = "done") =>
     \A id \in ServerIds :
       (clients[id] # NoClient /\ clients[id] # req[p].inst) =>
          clients'[id] = clients[id]

\* C25 as stated: a disconnect(X) that is still waiting for its close to
\* finish never removes a handle that a later connect(X) has installed,
\* under every interleaving of close and handshake completions.
C25_LateDisconnectKeepsNewHandle == [][\A p \in Procs : C25_Step(p)]_vars
\* ------------------------------------------------------------------ C26
\* the step in which a disconnect of a connected id completes
C26_Step(p) ==
  (req[p].pc = "d_close" /\ req'[p].pc = "done") =>
     /\ clients'[req[p].id] = NoClient
     /\ ~isConnected(req[p].id)'

\* C26 as stated: after a call disconnect(serverId) on a connected id has
\* completed, whether it returned normally or raised because closing the
\* client failed, the registry holds no handle for serverId and
\* isConnected(serverId) is false.
C26_DisconnectRemovesHandle == [][\A p \in Procs : C26_Step(p)]_vars

\* the part of C26 the code keeps: a disconnect that returns normally has
\* removed the handle
C26_NormalReturnRemovesHandle ==
  [][\A p \in Procs :
       (req[p].pc = "d_close" /\ req'[p].pc = "done"
          /\ resp'[p].status = 200) => clients'[req[p].id] = NoClient]_vars
\* ------------------------------------------------------------------ C27
\* C27 as stated: a run in which the model gives a response without function
\* calls within the round budget (in one of the maxIterations passes of the
\* loop, so after at most maxIterations model calls) returns exactly that
\* response's text as content, also when the text is empty; the truncation
\* message is returned only when the budget ran out while the model was
\* still proposing function calls.
C27_AnswerTextReturned ==
  (/\ chatPc = "done"
   /\ chatResp.status = 200
   /\ response.calls = <<>>
   /\ modelCalls <= maxIterations)
    => /\ chatResp.content = answerText
       /\ chatResp.content # FallbackText

\* the part of C27 the code keeps: an answer that arrives before the last
\* pass of the loop is returned as it is
C27_EarlyAnswerReturned ==
  (/\ chatPc = "done"
   /\ chatResp.status = 200
   /\ response.calls = <<>>
   /\ modelCalls < maxIterations)
    => chatResp.content = answerText
\* ------------------------------------------------------------------ C28
\* C28 as stated: isConnected(serverId) is true only while the connection
\* behind the handle is open: when the server process exits or the transport
\* closes without a disconnect call, the handle is removed from the table,
\* so the list of connected ids never names a server whose connection is
\* already closed.
C28_ConnectedMeansOpen ==
  \A id \in getConnectedServerIds : clientState[clients[id]] = "open"
\* ------------------------------------------------------------------ C29
\* the step in which a test request is answered: the id has the handle it
\* had when the request arrived, or none as then
C29_Step(p) ==
  (req[p].op = "test" /\ req[p].pc # "done" /\ req'[p].pc = "done"
     /\ req'[p].op = "test")
    => /\ clients'[req[p].id] = req[p].found
       /\ req[p].id \in getConnectedServerIds' <=> req[p].found # NoClient

\* C29 as stated: testConnection(config) does not change the registry: the
\* set of connected ids and the handle held for config.id are the same after
\* the test as before it, whether the test succeeds or fails.
C29_TestLeavesRegistry == [][\A p \in Procs : C29_Step(p)]_vars
\* ------------------------------------------------------------------ C30
\* C30 as stated: the function declarations submitted to the model have
\* pairwise distinct names and the resolution table has exactly one entry
\* per declaration, for every enabled-tool list, including a list that
\* contains the same (serverId, toolName) selection more than once.
C30_DistinctDeclarations ==
  chatPc \in {"model", "tool", "upload", "done"} =>
     /\ \A i, j \in 1..Len(functionDeclarations) :
          functionDeclarations[i] = functionDeclarations[j] => i = j
     /\ Cardinality(DOMAIN toolMap) = Len(functionDeclarations)

\* the part of C30 the code keeps: the declared names are the keys of the
\* resolution table
C30_DeclaredNamesAreKeys ==
  chatPc \in {"model", "tool", "upload", "done"} =>
     Range(functionDeclarations) = DOMAIN toolMap

====
